---------------------------- MODULE Spec2Model ----------------------------
(***************************************************************************)
(* A model of desk.py: the recursive page walk get_paginated_content, the  *)
(* collation of cases (get_cases), the embedding of related records        *)
(* (get_linked, embed_related_records_into_case), the store write          *)
(* (insert_case) and the run that composes them (main).                    *)
(*                                                                         *)
(* The Desk server and the PostgreSQL table are the environment.  The      *)
(* server is modelled as a static collection that is listed in pages; the  *)
(* table as a function from ids to documents with a primary key.           *)
(*                                                                         *)
(* Scale.  desk.py sets PAGINATION_LIMIT = 500 and per_page = 100; the     *)
(* model keeps the names and scales the values down, so that the cursor    *)
(* switch at page PAGINATION_LIMIT + 1 happens within a few pages.         *)
(* Python's recursion limit is a setting of the interpreter that hosts     *)
(* main, not of desk.py, and is not modelled: a walk is as deep as the     *)
(* upstream makes it (within MaxWalkRequests).                             *)
(***************************************************************************)
EXTENDS Integers, Sequences, FiniteSets, TLC

(***************************************************************************)
(* Bounds of the model.                                                    *)
(***************************************************************************)
\* desk.py:17 sets 500; scaled down.
PAGINATION_LIMIT == 2

\* desk.py:94 and :144 default to 100; scaled down.
per_page == 2

\* The most cases the upstream holds.
MaxEntries == 5

\* The most related records one case has in one related collection.
MaxLinked == 5

\* The most requests one walk issues before the model stops following it.
MaxWalkRequests == 7

\* The most pages of cases that the server serves with an empty entry list
\* in one run.
MaxBlankPages == 1

\* The most runs of main against the same store.
MaxRuns == 2

(***************************************************************************)
(* Values.                                                                 *)
(***************************************************************************)
\* Python's None, for a url parameter that is not there and for an unset
\* since_updated_at (None and 0 are both falsy at desk.py:37).
None == 0

\* The count hint of a _links entry that carries no "count" key.
NoCount == -1

\* The keys of desk.py:180, in its order.
LinkTypes == <<"notes", "attachments", "replies">>

\* updated_at strings "YYYY-mm-ddTHH:MM:SSZ" of one day, as their fields.
Times ==
    { [hour |-> 1, minute |-> 0, second |-> 0],
      [hour |-> 1, minute |-> 1, second |-> 1] }

\* The updated_at of the k-th related record of a collection.
LinkedTime(k) ==
    IF k > 2 /\ k % 2 = 1
        THEN [hour |-> 1, minute |-> 1, second |-> 1]
        ELSE [hour |-> 1, minute |-> 0, second |-> 0]

Last(s) == s[Len(s)]

Min(a, b) == IF a < b THEN a ELSE b

(***************************************************************************)
(* Time.                                                                   *)
(***************************************************************************)
\* The epoch second the server files an updated_at under.
Epoch(t) == t.hour * 3600 + t.minute * 60 + t.second

\* datetime.strptime(date_updated_at, "%Y-%m-%dT%H:%S:%fZ").timestamp(),
\* in hundredths of a second: %S reads the minute field as seconds, %f reads
\* the two digits of the second field as a fraction, the minute stays 0.
StrptimeTimestamp(t) == (t.hour * 3600 + t.minute) * 100 + t.second

\* str(int(since_updated_at)): the whole seconds.
IntOf(ts) == ts \div 100


(***************************************************************************)
(* State.                                                                  *)
(***************************************************************************)
VARIABLES
    upstream,                 \* the server: its cases, and whether its next-links repeat the query
    store,                    \* the case table: id -> doc
    run,                      \* the number of the current run of main
    pc,                       \* where main is
    err,                      \* the exception that ended the run, if any
    endpoint,                 \* the collection the current walk lists
    url,                      \* get_paginated_content's url argument of the next call
    since_updated_at,         \* its since_updated_at argument
    passed_pagination_limit,  \* its passed_pagination_limit argument
    pages,                    \* the dictionary of pages of the current walk
    requests,                 \* the calls of the current walk, with their responses
    returned,                 \* the current walk has returned its pages
    switches,                 \* how often the current walk replaced its cursor
    cases,                    \* get_cases' dictionary, in its order
    idx,                      \* the position in cases of the case main is at
    link,                     \* the position in LinkTypes embed is at
    hit,                      \* the endpoints requested in this run
    seen,                     \* the entries of the primary pages fetched in this run
    written,                  \* the ids this run has inserted
    firstReq,                 \* the first primary request of this run
    blanks                    \* the empty entry lists served in this run

vars ==
    << upstream, store, run, pc, err, endpoint, url, since_updated_at,
       passed_pagination_limit, pages, requests, returned, switches, cases,
       idx, link, hit, seen, written, firstReq, blanks >>

walkVars ==
    << endpoint, url, since_updated_at, passed_pagination_limit, pages,
       requests, returned, switches >>

(***************************************************************************)
(* The upstream API: a collection listed in pages of per_page entries,     *)
(* with a next-link while entries remain.  A since_updated_at query lists  *)
(* the records not older than the cursor, sorted by updated_at.            *)
(***************************************************************************)
\* The endpoint "/api/v2/cases" and "/api/v2/cases/{id}/{link_type}".
CasesEndpoint == [case |-> 0, link |-> 0]

LinkedEndpoint(id, j) == [case |-> id, link |-> j]

\* A url without page and since_updated_at parameters (desk.py:98, :147).
EndpointUrl == [page |-> None, since |-> None]

\* The related records that case id has under LinkTypes[j].
LinkedCount(id, j) == (id + j) % (MaxLinked + 1)

\* _links[link_type]["count"] of case id: some links carry one, others not.
CountHint(id, j) ==
    IF (id + j) % 2 = 0 THEN LinkedCount(id, j) ELSE NoCount

\* An entry of the cases collection as the server returns it.
CaseEntry(id) ==
    [ id         |-> id,
      updated_at |-> upstream.entries[id],
      links      |-> [j \in 1..Len(LinkTypes) |-> CountHint(id, j)],
      embedded   |-> [j \in 1..Len(LinkTypes) |-> [set |-> FALSE, items |-> <<>>]] ]

\* An entry of a related collection.
LinkedEntry(k) == [id |-> k, updated_at |-> LinkedTime(k)]

\* A collection in the server's default order.
Collection(ep) ==
    IF ep = CasesEndpoint
        THEN [i \in 1..Len(upstream.entries) |-> CaseEntry(i)]
        ELSE [k \in 1..LinkedCount(ep.case, ep.link) |-> LinkedEntry(k)]

RECURSIVE SortByUpdatedAt(_)
\* sort_field=updated_at: ascending, ties in the default order.
SortByUpdatedAt(s) ==
    IF Len(s) <= 1 THEN s
    ELSE LET r == SortByUpdatedAt(SubSeq(s, 1, Len(s) - 1))
             x == Last(s)
             k == Cardinality({i \in 1..Len(r) :
                      Epoch(r[i].updated_at) <= Epoch(x.updated_at)})
         IN  SubSeq(r, 1, k) \o <<x>> \o SubSeq(r, k + 1, Len(r))

\* What a request lists: everything, or the records not older than since.
Listing(ep, since) ==
    IF since = None THEN Collection(ep)
    ELSE LET NotOlder(e) == Epoch(e.updated_at) >= since
         IN  SortByUpdatedAt(SelectSeq(Collection(ep), NotOlder))

\* The number of the page a request names (page 1 when it names none).
PageOf(req) == IF req.page = None THEN 1 ELSE req.page

\* resp.json() of a 200 response: "page", _embedded.entries, _links.next.
Respond(ep, req, blank) ==
    LET listing == Listing(ep, req.since)
        p       == PageOf(req)
        more    == p * per_page < Len(listing)
    IN  [ page    |-> p,
          entries |-> IF blank THEN <<>>
                      ELSE SubSeq(listing, (p - 1) * per_page + 1,
                                  Min(p * per_page, Len(listing))),
          hasNext |-> more,
          next    |-> IF more
                        THEN [page  |-> p + 1,
                              since |-> IF upstream.echo THEN req.since ELSE None]
                        ELSE EndpointUrl ]

(***************************************************************************)
(* get_paginated_content, desk.py:28-91.                                   *)
(***************************************************************************)
\* A variant that appends whenever a since is set.
AppendsAlways(u, since) == since # None

\* desk.py:37-38: since_updated_at is set and the url does not hold
\* "since_updated_at" yet.
Appends(u, since) == since # None /\ u.since = None

\* desk.py:34-41: the url requested for a call's arguments.
FullUrl(u, since) ==
    IF Appends(u, since)
        THEN [u EXCEPT !.since = IntOf(since)]
        ELSE u

\* desk.py:62-63: the key a page is recorded under.
PagesKey(json, passed) ==
    IF ~passed THEN json.page ELSE json.page + PAGINATION_LIMIT

\* A dictionary as the sequence of its items: d[key] = val.
DictSet(d, key, val) ==
    IF \E i \in 1..Len(d) : d[i].key = key
        THEN [i \in 1..Len(d) |->
                 IF d[i].key = key THEN [key |-> key, val |-> val] ELSE d[i]]
        ELSE Append(d, [key |-> key, val |-> val])

\* desk.py:70-73: magic_page_marker in next_page_href.
HitsLimit(href) == href.page = PAGINATION_LIMIT + 1

\* A variant that leaves the page parameter in the link.
StripPageKept(href) == href

\* desk.py:75: next_page_href.replace(magic_page_marker, '').
StripPage(href) == [href EXCEPT !.page = None]

\* desk.py:77: the entry the new cursor is taken from.
CursorEntry(entries) == entries[Len(entries)]

RECURSIVE Flatten(_)
\* The entries of a dictionary of pages, in the dictionary's order.
Flatten(d) ==
    IF d = <<>> THEN <<>> ELSE Head(d).val.entries \o Flatten(Tail(d))

RECURSIVE ById(_, _)
\* desk.py:111-117: cases[entry["id"]] = entry over a list of entries.
ById(acc, es) ==
    IF es = <<>> THEN acc
    ELSE ById(DictSet(acc, Head(es).id, Head(es)), Tail(es))

\* desk.py:109-119: get_cases' result, as the list of its values.
Collate(d) ==
    LET byId == ById(<<>>, Flatten(d))
    IN  [i \in 1..Len(byId) |-> byId[i].val]

(***************************************************************************)
(* The store: the "case" table, id INTEGER PRIMARY KEY, doc JSONB.         *)
(***************************************************************************)
NoRows == [i \in {} |-> 0]

\* A variant whose row never reaches the table.
InsertRowLost(table, doc) == table

\* desk.py:266-268: cnx.execute(case_table.insert(), id=case["id"], doc=case).
InsertRow(table, doc) == table @@ (doc.id :> doc)

\* The insert violates the primary key.
Duplicate(table, doc) == doc.id \in DOMAIN table

\* A variant in which a failed insert takes the rows of the run with it.
ExecuteRaisedRollsBack(table, ids) == [i \in DOMAIN table \ ids |-> table[i]]

\* desk.py:266-268 when cnx.execute raises: the table after it.  main opens
\* no transaction on the connection of desk.py:229, every statement is
\* committed by itself, and nothing undoes the rows of the calls before.
ExecuteRaised(table, ids) == table

\* desk.py:269: what "except psycopg2.errors.UniqueViolation" catches.  The
\* connection raises sqlalchemy's own IntegrityError around the driver's
\* error, which is no subclass of it: the clause catches nothing.
Caught(exception) == exception = "psycopg2.errors.UniqueViolation"

(***************************************************************************)
(* The run.                                                                *)
(***************************************************************************)
\* The status codes a response carries.
Statuses == {"200", "503"}

\* A variant that raises for no status.
RaisesNever(status) == FALSE

\* desk.py:50: resp.status_code != 200.
Raises(status) == status # "200"

\* The latest updated_at among the stored documents, as an epoch second.
MaxStoredEpoch ==
    CHOOSE m \in {Epoch(store[i].updated_at) : i \in DOMAIN store} :
        \A i \in DOMAIN store : Epoch(store[i].updated_at) <= m

\* A variant of get_cases that resumes from the latest stored updated_at.
GetCasesSinceStored == IF store = NoRows THEN None ELSE MaxStoredEpoch * 100

\* desk.py:109: get_cases passes no since_updated_at (the default of :29).
GetCasesSince == None

\* A variant that short-circuits on a negative count only.
ShortCircuitBelowZero(hint) == hint # NoCount /\ hint < 0

\* desk.py:157-161: the count is there and less than 1.
ShortCircuit(hint) == hint # NoCount /\ hint < 1

\* The response of a request that failed.
NoJson == [page |-> 0, entries |-> <<>>, hasNext |-> FALSE, next |-> EndpointUrl]

NoRequest ==
    [ url |-> EndpointUrl, since |-> None, passed |-> FALSE,
      appended |-> FALSE, full |-> EndpointUrl,
      status |-> "none", json |-> NoJson ]

Range(s) == {s[i] : i \in 1..Len(s)}

Init ==
    /\ upstream \in
           { [entries |-> es, echo |-> e] :
                 es \in UNION {[1..n -> Times] : n \in 0..MaxEntries},
                 e \in BOOLEAN }
    /\ store = NoRows
    /\ run = 1
    /\ pc = "main"
    /\ err = "none"
    /\ endpoint = CasesEndpoint
    /\ url = EndpointUrl
    /\ since_updated_at = None
    /\ passed_pagination_limit = FALSE
    /\ pages = <<>>
    /\ requests = <<>>
    /\ returned = FALSE
    /\ switches = 0
    /\ cases = <<>>
    /\ idx = 0
    /\ link = 0
    /\ hit = {}
    /\ seen = {}
    /\ written = {}
    /\ firstReq = NoRequest
    /\ blanks = 0

\* The first call of a walk: get_paginated_content(endpoint_url), desk.py:109, :163.
StartWalk(ep, since) ==
    /\ endpoint' = ep
    /\ url' = EndpointUrl
    /\ since_updated_at' = since
    /\ passed_pagination_limit' = FALSE
    /\ pages' = <<>>
    /\ requests' = <<>>
    /\ returned' = FALSE
    /\ switches' = 0

\* desk.py:281-283: main calls get_cases, which starts the primary walk.
Main ==
    /\ pc = "main"
    /\ pc' = "walk_cases"
    /\ StartWalk(CasesEndpoint, GetCasesSince)
    /\ UNCHANGED << upstream, store, run, err, cases, idx, link, hit, seen,
                    written, firstReq, blanks >>

\* A variant that inserts the case after its first link type.
AfterLinkEarly(j) == "insert_case"

\* desk.py:180-185: after one link type, the next one, or the insert.
AfterLink(j) == IF j < Len(LinkTypes) THEN "get_linked" ELSE "insert_case"

NextLink(j) == IF j < Len(LinkTypes) THEN j + 1 ELSE j

\* One call of get_paginated_content, desk.py:34-91, and, when it is the last
\* of its walk, what the caller does with the pages: get_cases collates them
\* (desk.py:111-119), get_linked flattens them (desk.py:165-169).
Request(status, blank) ==
    /\ pc \in {"walk_cases", "walk_linked"}
    /\ Len(requests) < MaxWalkRequests
    /\ blank => (status = "200" /\ pc = "walk_cases" /\ blanks < MaxBlankPages)
    /\ LET full == FullUrl(url, since_updated_at)
           json == Respond(endpoint, full, blank)
           pgs  == DictSet(pages, PagesKey(json, passed_pagination_limit), json)
           req  == [ url |-> url, since |-> since_updated_at,
                     passed |-> passed_pagination_limit,
                     appended |-> Appends(url, since_updated_at),
                     full |-> full, status |-> status,
                     json |-> IF Raises(status) THEN NoJson ELSE json ]
       IN  /\ requests' = Append(requests, req)
           /\ hit' = hit \cup {endpoint}
           /\ firstReq' = IF pc = "walk_cases" /\ requests = <<>>
                              THEN req ELSE firstReq
           /\ blanks' = IF blank THEN blanks + 1 ELSE blanks
           /\ IF Raises(status)
                THEN \* desk.py:50-52: raise Exception.
                     /\ pc' = "failed"
                     /\ err' = "http"
                     /\ UNCHANGED << url, since_updated_at, passed_pagination_limit,
                                     pages, returned, switches, cases, idx, link,
                                     seen >>
                ELSE
                  /\ seen' = IF pc = "walk_cases"
                                THEN seen \cup Range(json.entries) ELSE seen
                  /\ IF ~json.hasNext
                       THEN \* desk.py:91: return pages, up to the first caller.
                            /\ pages' = pgs
                            /\ returned' = TRUE
                            /\ err' = err
                            /\ IF pc = "walk_cases"
                                 THEN /\ cases' = Collate(pgs)
                                      /\ pc' = "database"
                                      /\ UNCHANGED << idx, link >>
                                 ELSE /\ cases' = [cases EXCEPT ![idx].embedded[link] =
                                              [set |-> TRUE, items |-> Flatten(pgs)]]
                                      /\ pc' = AfterLink(link)
                                      /\ link' = NextLink(link)
                                      /\ idx' = idx
                            /\ UNCHANGED << url, since_updated_at,
                                            passed_pagination_limit, switches >>
                       ELSE IF HitsLimit(json.next)
                         THEN IF json.entries = <<>>
                           THEN \* desk.py:77: [-1] of an empty list, IndexError.
                                /\ pc' = "failed"
                                /\ err' = "index"
                                /\ UNCHANGED << url, since_updated_at,
                                     passed_pagination_limit, pages, returned,
                                     switches, cases, idx, link >>
                           ELSE \* desk.py:73-87: replace the cursor and go on.
                                /\ url' = StripPage(json.next)
                                /\ since_updated_at' =
                                     StrptimeTimestamp(CursorEntry(json.entries).updated_at)
                                /\ passed_pagination_limit' = TRUE
                                /\ switches' = switches + 1
                                /\ pages' = pgs
                                /\ UNCHANGED << pc, err, returned, cases, idx, link >>
                         ELSE \* desk.py:84-87: go on with the next-link as given.
                              /\ url' = json.next
                              /\ pages' = pgs
                              /\ UNCHANGED << pc, err, since_updated_at,
                                   passed_pagination_limit, returned, switches,
                                   cases, idx, link >>
    /\ UNCHANGED << upstream, store, run, endpoint, written >>

\* desk.py:285-289: create_database, get_case_table, get_database_connection
\* succeed; main enters its loop over the cases (desk.py:293).  The three
\* calls provision the store, which is the environment here: as written,
\* desk.py:197 reads a name dbname that the module never binds.
Database ==
    /\ pc = "database"
    /\ pc' = IF cases = <<>> THEN "done" ELSE "get_linked"
    /\ idx' = IF cases = <<>> THEN 0 ELSE 1
    /\ link' = IF cases = <<>> THEN 0 ELSE 1
    /\ UNCHANGED << upstream, store, run, err, walkVars, cases, hit, seen,
                    written, firstReq, blanks >>

\* desk.py:285-289: one of them raises.
DatabaseError ==
    /\ pc = "database"
    /\ pc' = "failed"
    /\ err' = "database"
    /\ UNCHANGED << upstream, store, run, walkVars, cases, idx, link, hit, seen,
                    written, firstReq, blanks >>

\* desk.py:144-163: get_linked up to its return of an empty list or its
\* first call of get_paginated_content.
GetLinked ==
    /\ pc = "get_linked"
    /\ IF ShortCircuit(cases[idx].links[link])
         THEN /\ cases' = [cases EXCEPT ![idx].embedded[link] =
                      [set |-> TRUE, items |-> <<>>]]
              /\ pc' = AfterLink(link)
              /\ link' = NextLink(link)
              /\ UNCHANGED walkVars
         ELSE /\ StartWalk(LinkedEndpoint(cases[idx].id, link), None)
              /\ pc' = "walk_linked"
              /\ UNCHANGED << cases, link >>
    /\ UNCHANGED << upstream, store, run, err, idx, hit, seen, written,
                    firstReq, blanks >>

\* desk.py:254-272 and the loop step of desk.py:293: insert_case for the
\* case at idx.  A primary-key violation reaches the except clause as
\* sqlalchemy.exc.IntegrityError.
InsertCase ==
    /\ pc = "insert_case"
    /\ IF Duplicate(store, cases[idx])
         THEN IF Caught("sqlalchemy.exc.IntegrityError")
                THEN \* desk.py:270-272: warn, return None; next case.
                     /\ pc' = IF idx < Len(cases) THEN "get_linked" ELSE "done"
                     /\ idx' = IF idx < Len(cases) THEN idx + 1 ELSE idx
                     /\ link' = 1
                     /\ UNCHANGED << store, written, err >>
                ELSE /\ pc' = "failed"
                     /\ err' = "integrity"
                     /\ store' = ExecuteRaised(store, written)
                     /\ UNCHANGED << written, idx, link >>
         ELSE /\ store' = InsertRow(store, cases[idx])
              /\ written' = written \cup {cases[idx].id}
              /\ pc' = IF idx < Len(cases) THEN "get_linked" ELSE "done"
              /\ idx' = IF idx < Len(cases) THEN idx + 1 ELSE idx
              /\ link' = 1
              /\ err' = err
    /\ UNCHANGED << upstream, run, walkVars, cases, hit, seen, firstReq, blanks >>

\* desk.py:266: cnx.execute raises for another reason (the connection).
InsertError ==
    /\ pc = "insert_case"
    /\ pc' = "failed"
    /\ err' = "storage"
    /\ store' = ExecuteRaised(store, written)
    /\ UNCHANGED << upstream, run, walkVars, cases, idx, link, hit, seen,
                    written, firstReq, blanks >>

\* main is run again, against the same store and the same upstream.
NextRun ==
    /\ pc \in {"done", "failed"}
    /\ run < MaxRuns
    /\ run' = run + 1
    /\ pc' = "main"
    /\ err' = "none"
    /\ endpoint' = CasesEndpoint
    /\ url' = EndpointUrl
    /\ since_updated_at' = None
    /\ passed_pagination_limit' = FALSE
    /\ pages' = <<>>
    /\ requests' = <<>>
    /\ returned' = FALSE
    /\ switches' = 0
    /\ cases' = <<>>
    /\ idx' = 0
    /\ link' = 0
    /\ hit' = {}
    /\ seen' = {}
    /\ written' = {}
    /\ firstReq' = NoRequest
    /\ blanks' = 0
    /\ UNCHANGED << upstream, store >>

Next ==
    \/ Main
    \/ \E status \in Statuses, blank \in BOOLEAN : Request(status, blank)
    \/ Database
    \/ DatabaseError
    \/ GetLinked
    \/ InsertCase
    \/ InsertError
    \/ NextRun

Spec == Init /\ [][Next]_vars

(***************************************************************************)
(* Full walk termination.                                                  *)
(***************************************************************************)
\* C1: a walk that has returned after N requests, of which the N-th is the
\* first whose page has no next-link, returns N pages.
C1_WalkReturnsEveryPage ==
    returned =>
        /\ ~Last(requests).json.hasNext
        /\ \A i \in 1..(Len(requests) - 1) : requests[i].json.hasNext
        /\ Len(pages) = Len(requests)

(***************************************************************************)
(* The cursor switch.                                                      *)
(***************************************************************************)
\* The request after requests[i - 1] is the one that replaced the cursor.
IsSwitch(i) ==
    /\ i > 1
    /\ requests[i - 1].json.hasNext
    /\ HitsLimit(requests[i - 1].json.next)

\* Before the switch a request is the server's next-link, unchanged.
FollowsNextLink(i) ==
    ~requests[i].passed =>
        /\ requests[i].full.since = None
        /\ i > 1 => requests[i].full = requests[i - 1].json.next

C3_SwitchAtMostOnce == switches <= 1

(***************************************************************************)
(* The store write.                                                        *)
(***************************************************************************)
\* C4: no call of insert_case raises a uniqueness violation, and the row of
\* an id holds the document of the last call for it.
C4_InsertIsIdempotent ==
    /\ err # "integrity"
    /\ \A k \in 1..Len(cases) :
           cases[k].id \in written =>
               /\ cases[k].id \in DOMAIN store
               /\ store[cases[k].id] = cases[k]

(***************************************************************************)
(* Related records.                                                        *)
(***************************************************************************)
\* C5: a related collection whose count hint is 0 is embedded as the empty
\* list, and its endpoint is never requested.
C5_ZeroCountShortCircuits ==
    \A k \in 1..Len(cases) : \A j \in 1..Len(LinkTypes) :
        cases[k].links[j] = 0 =>
            /\ LinkedEndpoint(cases[k].id, j) \notin hit
            /\ cases[k].embedded[j].set => cases[k].embedded[j].items = <<>>

\* get_linked has returned for a collection whose count hint is 0, and has
\* walked another collection of the same case.
C5_Witness ==
    \E k \in 1..Len(cases) : \E j, h \in 1..Len(LinkTypes) :
        /\ cases[k].links[j] = 0
        /\ cases[k].embedded[j].set
        /\ LinkedEndpoint(cases[k].id, h) \in hit

(***************************************************************************)
(* The run.                                                                *)
(***************************************************************************)
\* C6: the first run (on the empty store), once done, has made its first
\* primary request without a since, and holds every entry of every primary
\* page it fetched, by id, with the updated_at fetched.
C6_FullRunStoresEveryFetchedEntry ==
    (run = 1 /\ pc = "done") =>
        /\ firstReq.full.since = None
        /\ \A e \in seen :
               /\ e.id \in DOMAIN store
               /\ store[e.id].updated_at = e.updated_at

C9_HttpErrorAbortsRun ==
    /\ [](\A i \in 1..Len(requests) :
             requests[i].status # "200" =>
                 /\ i = Len(requests)
                 /\ pc = "failed"
                 /\ err = "http")
    /\ [][(pc = "failed" /\ err = "http" /\ run' = run) =>
              UNCHANGED << requests, hit, store, written >>]_vars

\* A related-record request failed after the run had written a row.
C9_Witness ==
    /\ requests # <<>>
    /\ Last(requests).status # "200"
    /\ endpoint # CasesEndpoint
    /\ written # {}

\* C10: a page with no entries whose next-link names page
\* PAGINATION_LIMIT + 1 ends the walk as a page without next-link does.
C10_EmptyPageAtLimitEndsWalk ==
    ( /\ requests # <<>>
      /\ Last(requests).status = "200"
      /\ Last(requests).json.hasNext
      /\ HitsLimit(Last(requests).json.next)
      /\ Last(requests).json.entries = <<>> )
    => (returned /\ err = "none")

(***************************************************************************)
(* Termination of a walk.                                                  *)
(***************************************************************************)
\* The arguments of the i-th call of the current walk.
CallArgs(i) ==
    [url |-> requests[i].url, since |-> requests[i].since,
     passed |-> requests[i].passed]

\* C11: a walk over a collection that does not change ends.  The response to
\* a call is a function of its arguments, and so is the next call: a walk
\* ends, unless it fails, exactly if no call of it repeats the arguments of
\* an earlier one.
C11_NoCallRepeats ==
    \A i, j \in 1..Len(requests) : i < j => CallArgs(i) # CallArgs(j)

\* C12: the since adopted at a switch is the epoch second of the updated_at
\* of the last entry of the page that triggered it.
C12_SinceIsEpochOfLastEntry ==
    \A i \in 1..Len(requests) :
        IsSwitch(i) =>
            IntOf(requests[i].since) =
                Epoch(Last(requests[i - 1].json.entries).updated_at)

(***************************************************************************)
(* The list get_linked returns.                                            *)
(***************************************************************************)
RECURSIVE EntriesServed(_)
\* The entries of the responses of a sequence of calls, in their order.
EntriesServed(reqs) ==
    IF reqs = <<>> THEN <<>>
    ELSE Head(reqs).json.entries \o EntriesServed(Tail(reqs))

\* C13: when get_linked has walked a collection (count hint absent or not
\* zero), the first request carried no since and the list embedded is the
\* entries of the pages served, in the order served, each page once.
C13_LinkedIsPagesInOrder ==
    (returned /\ endpoint # CasesEndpoint) =>
        /\ requests[1].full = EndpointUrl
        /\ \A k \in 1..Len(cases) :
               cases[k].id = endpoint.case =>
                   /\ cases[k].links[endpoint.link] # 0
                   /\ cases[k].embedded[endpoint.link].set
                   /\ cases[k].embedded[endpoint.link].items =
                          EntriesServed(requests)

(***************************************************************************)
(* The order of fetches and writes in a run.                               *)
(***************************************************************************)
\* All three related collections of the k-th case have been fetched.
Embedded(k) == \A j \in 1..Len(LinkTypes) : cases[k].embedded[j].set

\* A related fetch for the k-th case has begun or ended.
Fetching(k) ==
    \E j \in 1..Len(LinkTypes) :
        \/ LinkedEndpoint(cases[k].id, j) \in hit
        \/ cases[k].embedded[j].set

C14_FetchesThenWrite ==
    /\ pc = "insert_case" => Embedded(idx)
    /\ \A k \in 1..Len(cases) :
           /\ cases[k].id \in written => Embedded(k)
           /\ Fetching(k) => \A h \in 1..(k - 1) : cases[h].id \in written
           /\ \A j \in 1..Len(LinkTypes) :
                  (LinkedEndpoint(cases[k].id, j) \in hit \/ cases[k].embedded[j].set)
                      => \A h \in 1..(j - 1) : cases[k].embedded[h].set

C14_OneAtATime ==
    /\ requests' # requests => (store' = store /\ Len(requests') <= Len(requests) + 1)
    /\ store' # store =>
           /\ requests' = requests
           /\ Cardinality(DOMAIN store') = Cardinality(DOMAIN store) + 1

\* C14: in every run the three related fetches of an entry (notes,
\* attachments, replies, in this order) are complete before its store write
\* is attempted, the write of an entry has succeeded before any related fetch
\* of the next entry begins, and no step issues more than one request or
\* write.
C14_EmbedThenInsertInOrder == []C14_FetchesThenWrite /\ [][C14_OneAtATime]_vars

C14_Witness ==
    /\ pc = "walk_linked"
    /\ idx >= 2
    /\ link = Len(LinkTypes)
    /\ requests # <<>>
    /\ cases[idx - 1].id \in written
    /\ \E j \in 1..Len(LinkTypes) : LinkedEndpoint(cases[idx - 1].id, j) \in hit

(***************************************************************************)
(* The since parameter of a request.                                       *)
(***************************************************************************)
\* How many times the url requested by the i-th call holds since_updated_at:
\* once when the url passed in holds it, once more when the call appends it.
SinceCount(i) ==
    (IF requests[i].url.since # None THEN 1 ELSE 0)
        + (IF requests[i].appended THEN 1 ELSE 0)

\* C15: a call appends sort_field and since_updated_at only when a since is
\* set and the url passed in does not hold since_updated_at; so no url
\* requested holds since_updated_at twice, and a call whose url (a next-link)
\* already holds a cursor requests it with that cursor.
C15_SinceAppendedAtMostOnce ==
    \A i \in 1..Len(requests) :
        /\ requests[i].appended =>
               /\ requests[i].since # None
               /\ requests[i].url.since = None
               /\ requests[i].full.since = IntOf(requests[i].since)
        /\ SinceCount(i) <= 1
        /\ requests[i].url.since # None =>
               requests[i].full.since = requests[i].url.since

C15_Witness ==
    \E i, j \in 1..Len(requests) :
        /\ requests[i].appended
        /\ requests[j].since # None
        /\ requests[j].url.since # None
        /\ requests[j].url.since # IntOf(requests[j].since)

(***************************************************************************)
(* A duplicate insert.                                                     *)
(***************************************************************************)
\* C16: a call of insert_case for an id that is in the case table, when the
\* connection itself does not fail, leaves the table as it is, raises nothing
\* and returns to main's loop, which goes on with the next case or ends.
C16_DuplicateIsSkipped ==
    [][(pc = "insert_case" /\ Duplicate(store, cases[idx]) /\ err' # "storage") =>
           /\ store' = store
           /\ err' = err
           /\ pc' = (IF idx < Len(cases) THEN "get_linked" ELSE "done")]_vars

(***************************************************************************)
(* A failed store write.                                                   *)
(***************************************************************************)
\* The rows this run wrote are in the store as the run wrote them.
WrittenRowsStored ==
    \A k \in 1..Len(cases) :
        cases[k].id \in written =>
            /\ cases[k].id \in DOMAIN store
            /\ store[cases[k].id] = cases[k]

\* C17: a call of insert_case that raises ends the run and changes no row;
\* in a run so ended every document an earlier call of the run wrote is in
\* the store as written, and nothing is written or requested any more.
C17_FailedWriteKeepsEarlierWrites ==
    /\ [][(pc = "insert_case" /\ pc' = "failed") =>
              (store' = store /\ written' = written)]_vars
    /\ []((pc = "failed" /\ err \in {"integrity", "storage"}) => WrittenRowsStored)
    /\ [][(pc = "failed" /\ err \in {"integrity", "storage"} /\ run' = run) =>
              UNCHANGED << store, written, requests >>]_vars

C17_Witness ==
    /\ pc = "failed"
    /\ err = "storage"
    /\ Cardinality(written) >= 2

(***************************************************************************)
(* The keys of the pages of a walk.                                        *)
(***************************************************************************)
\* The key under which the page of the i-th call is recorded.
KeyOf(i) == PagesKey(requests[i].json, requests[i].passed)

\* C18: the pages fetched by one walk are recorded under pairwise distinct
\* keys, and the cases get_cases returns are the entries seen on the pages of
\* its walk, one case for each id.
C18_PageKeysDistinct ==
    /\ \A i, j \in 1..Len(requests) :
           (i < j /\ requests[i].status = "200" /\ requests[j].status = "200")
               => KeyOf(i) # KeyOf(j)
    /\ pc = "database" =>
           {cases[k].id : k \in 1..Len(cases)} = {e.id : e \in seen}

=============================================================================
